---- MODULE Spec2Model ----
(***************************************************************************)
(* Negative sampling and batch reindexing of the knowledge-graph dataset   *)
(* layer (apps/graph4kg/utils/dataset.py): KGDataset and TestKGDataset.    *)
(*                                                                         *)
(* Arrays are sequences (1-based here, 0-based in the source: the local    *)
(* id i of the source is position i+1 of a sequence).  Tensors are the     *)
(* arrays they are built from.  Random draws are nondeterministic choices. *)
(***************************************************************************)
EXTENDS Integers, Sequences, FiniteSets, TLC

(***************************************************************************)
(* Bounds of the model.                                                    *)
(***************************************************************************)
NumEnts == 3          \* num_ents of the small datasets: entity ids 0..NumEnts-1
MaxCalls == 2         \* mixed_collate_fn is called at most MaxCalls times

Rels == {0}
\* num_ents of the wide datasets: more entities than one small batch can mention
WideEnts == NumEnts + 2
\* (num_ents of the dataset, batch size of the loader, num_negs of the dataset).
\* B*(2+num_negs) is 3, 4 and 6: above num_ents for the small datasets with
\* B = 2, below it for the wide ones.
Sizes == {<<NumEnts, 1, 1>>, <<NumEnts, 1, 2>>, <<NumEnts, 2, 1>>,
          <<WideEnts, 1, 1>>, <<WideEnts, 1, 2>>}
NegModes == {"batch", "full", "other"}           \* "other": any unsupported string
\* The known-true triplets the filter dictionaries are built from.
KnownGraphs == SUBSET {<<0, 0, 1>>, <<1, 0, 0>>, <<2, 0, 1>>, <<1, 0, 1>>}

VARIABLES
    num_ents,       \* KGDataset._num_ents
    neg_mode,       \* KGDataset._neg_mode
    num_negs,       \* KGDataset._num_negs
    filter_mode,    \* KGDataset._filter_mode
    filter_dict,    \* KGDataset._filter_dict: [head |-> dict, tail |-> dict]
    filter_kind,    \* how a filter set is stored: "set" (Python set) or "array" (list / ndarray)
    step,           \* KGDataset._step
    batch_size,     \* the external loader's batch size: len(data) of every batch
    nMixed,         \* history: number of mixed_collate_fn calls made so far
    last,           \* history: the last collation call and what it returned or raised
    \* one call of KGDataset.uniform_sampler, statement by statement
    us_pc,          \* where the call is: "entry", "while", "return", "ValueError" ("off": no call)
    us_k,           \* argument k
    us_cand,        \* argument cand: an int or a sequence of ids
    us_filter_set,  \* argument filter_set
    us_new_e_list,  \* new_e_list, kept as the concatenation of its arrays
    us_new_e_num,   \* new_e_num
    us_new_e,       \* new_e, the returned array
    \* threads calling mixed_collate_fn on one dataset
    th_pc,          \* per thread: "idle", "loaded", "stored"
    th_reg,         \* per thread: the value of self._step it has loaded
    th_log,         \* history: the sides chosen, in the order of the parity checks
    th_overlap,     \* history: some call began while another was in progress
    \* TestKGDataset
    test_num_ents,  \* TestKGDataset._num_ents
    test_mode,      \* TestKGDataset._mode
    test_h,         \* TestKGDataset._h
    test_r,         \* TestKGDataset._r
    test_t,         \* TestKGDataset._t
    test_cand,      \* TestKGDataset._cand
    test_corr_idx,  \* TestKGDataset._corr_idx
    test_ret        \* history: what the last TestKGDataset.collate_fn call returned

kgVars == <<num_ents, neg_mode, num_negs, filter_mode, filter_dict, filter_kind, step, batch_size,
            nMixed, last>>
usVars == <<us_pc, us_k, us_cand, us_filter_set, us_new_e_list, us_new_e_num, us_new_e>>
thVars == <<th_pc, th_reg, th_log, th_overlap>>
testVars == <<test_num_ents, test_mode, test_h, test_r, test_t, test_cand, test_corr_idx,
              test_ret>>
vars == <<kgVars, usVars, thVars, testVars>>

(***************************************************************************)
(* numpy helpers                                                           *)
(***************************************************************************)
Elems(a) == {a[i] : i \in DOMAIN a}

RECURSIVE np_concatenate(_)
np_concatenate(arrs) ==
    IF arrs = <<>> THEN <<>> ELSE Head(arrs) \o np_concatenate(Tail(arrs))

RECURSIVE SortedSeq(_)
SortedSeq(S) ==
    IF S = {} THEN <<>>
    ELSE LET m == CHOOSE x \in S : \A y \in S : x <= y
         IN  <<m>> \o SortedSeq(S \ {m})

\* np.unique: the sorted unique elements of an array
np_unique(a) == SortedSeq(Elems(a))

(***************************************************************************)
(* Python values                                                           *)
(***************************************************************************)
None == [kind |-> "None", ids |-> {}]
PySet(S) == [kind |-> "set", ids |-> S]
PyArray(S) == [kind |-> "array", ids |-> S]
NoneDict == [none |-> TRUE, map |-> <<>>]
Dict(f) == [none |-> FALSE, map |-> f]
\* bool(d) of a dict or None
Truthy(d) == ~d.none /\ DOMAIN d.map # {}

IntCand(n) == [kind |-> "int", n |-> n, e |-> <<>>]
SeqCand(e) == [kind |-> "seq", n |-> 0, e |-> e]

(***************************************************************************)
(* KGDataset.group_index                                                   *)
(***************************************************************************)
\* (mutant) positions counted from 1
reindex_dict_FromOne(uniques) ==
    [x \in Elems(uniques) |-> CHOOSE i \in DOMAIN uniques : uniques[i] = x]

\* reindex_dict: the position (0-based) of each unique id
reindex_dict(uniques) ==
    [x \in Elems(uniques) |-> (CHOOSE i \in DOMAIN uniques : uniques[i] = x) - 1]

group_index(data) ==
    LET uniques == np_unique(np_concatenate(data))
    IN  [reindex_dict |-> reindex_dict(uniques), uniques |-> uniques]

\* reindex_func(x): the vectorised lookup; an id absent from the dict raises KeyError
Reindexable(d, x) == Elems(x) \subseteq DOMAIN d
reindex_func(d, x) == [i \in DOMAIN x |-> d[x[i]]]

(***************************************************************************)
(* KGDataset.uniform_sampler                                               *)
(***************************************************************************)
n_cand(cand) == IF cand.kind = "int" THEN cand.n ELSE Len(cand.e)

\* (mutant) indices drawn from [1, n_cand] when cand is an int
e_cand_FromOne(cand, j) == IF cand.kind = "int" THEN j + 1 ELSE cand.e[j + 1]

\* new_e if e_cand is None else e_cand[new_e], for one drawn index j in [0, n_cand)
e_cand(cand, j) == IF cand.kind = "int" THEN j ELSE cand.e[j + 1]

\* The elements np.in1d compares against.  np.asarray of a list or array holds
\* its ids; np.asarray of a Python set is a one-element object array holding the
\* set itself, which no integer equals.
TestElements(filter_set) == IF filter_set.kind = "array" THEN filter_set.ids ELSE {}

\* mask = np.in1d(new_e, filter_set, invert=True)
in1d_invert(new_e, filter_set) ==
    [i \in DOMAIN new_e |-> new_e[i] \notin TestElements(filter_set)]

\* new_e[mask]
RECURSIVE Masked(_, _)
Masked(new_e, mask) ==
    IF new_e = <<>> THEN <<>>
    ELSE (IF mask[1] THEN <<new_e[1]>> ELSE <<>>)
         \o Masked(Tail(new_e), Tail(mask))

\* the ids one draw can give, and those that survive the mask
Drawable(cand) == {e_cand(cand, j) : j \in 0..(n_cand(cand) - 1)}
Kept(cand, filter_set) == {x \in Drawable(cand) : x \notin TestElements(filter_set)}

\* (mutant) the filtered branch returns its 2k draws without cutting them to k
uniform_sampler_Uncut(k, cand, filter_set) ==
    IF filter_set # None
    THEN [1..(2 * k) -> Kept(cand, filter_set)]
    ELSE [1..k -> Drawable(cand)]

\* The arrays a call uniform_sampler(k, cand, filter_set) can return.  With a
\* filter the loop returns the first k surviving ids of its draws, so any k
\* surviving ids; when nothing survives the set is empty: the loop never ends.
uniform_sampler(k, cand, filter_set) ==
    IF filter_set # None
    THEN [1..k -> Kept(cand, filter_set)]
    ELSE [1..k -> Drawable(cand)]

\* no uniform_sampler call, no thread and no TestKGDataset is being followed
SamplerOff ==
    /\ us_pc = "off"
    /\ us_k = 0
    /\ us_cand = IntCand(0)
    /\ us_filter_set = None
    /\ us_new_e_list = <<>>
    /\ us_new_e_num = 0
    /\ us_new_e = <<>>
ThreadsOff ==
    /\ th_pc = <<>>
    /\ th_reg = <<>>
    /\ th_log = <<>>
    /\ th_overlap = FALSE
TestOff ==
    /\ test_num_ents = 0
    /\ test_mode = "off"
    /\ test_h = <<>>
    /\ test_r = <<>>
    /\ test_t = <<>>
    /\ test_cand = 0
    /\ test_corr_idx = <<>>
    /\ test_ret = <<>>

(***************************************************************************)
(* KGDataset.__init__                                                      *)
(***************************************************************************)
\* filter_dict as documented: {'head': {(t, r): set(h)}, 'tail': {(h, r): set(t)}}
TrueHeads(K) ==
    [key \in {<<x[3], x[2]>> : x \in K} |->
        {x[1] : x \in {y \in K : y[3] = key[1] /\ y[2] = key[2]}}]
TrueTails(K) ==
    [key \in {<<x[1], x[2]>> : x \in K} |->
        {x[3] : x \in {y \in K : y[1] = key[1] /\ y[2] = key[2]}}]

NoCall ==
    [fn |-> "none", data |-> <<>>, outcome |-> "none", mode |-> "none",
     fl_set |-> NoneDict, cand |-> IntCand(0), neg |-> <<>>, h |-> <<>>, r |-> <<>>, t |-> <<>>,
     neg_ents |-> <<>>, all_ents |-> <<>>]

KGDatasetInit ==
    /\ neg_mode \in NegModes
    /\ \E size \in Sizes :
          num_ents = size[1] /\ batch_size = size[2] /\ num_negs = size[3]
    /\ \/ /\ filter_mode = FALSE
          /\ filter_dict = [head |-> NoneDict, tail |-> NoneDict]
          /\ filter_kind = "set"
       \/ /\ filter_mode = TRUE
          /\ \E K \in KnownGraphs :
                filter_dict = [head |-> Dict(TrueHeads(K)), tail |-> Dict(TrueTails(K))]
          /\ filter_kind \in {"set", "array"}
    /\ step = 0
    /\ nMixed = 0
    /\ last = NoCall

(***************************************************************************)
(* KGDataset._collate_fn                                                   *)
(***************************************************************************)
Column(data, c) == [i \in DOMAIN data |-> data[i][c]]

\* the key the filter set of triplet i is looked up under
FilterKey(data, mode, i) ==
    IF mode = "head" THEN <<data[i][3], data[i][2]>> ELSE <<data[i][1], data[i][2]>>

\* fl_set_i = fl_set[key] if fl_set else None
fl_set_i(data, mode, fl_set, i) ==
    IF Truthy(fl_set)
    THEN [kind |-> filter_kind, ids |-> fl_set.map[FilterKey(data, mode, i)]]
    ELSE None

KeyMissing(data, mode, fl_set, i) ==
    Truthy(fl_set) /\ FilterKey(data, mode, i) \notin DOMAIN fl_set.map

Raised(fn, data, what) ==
    [NoCall EXCEPT !.fn = fn, !.data = data, !.outcome = what]

\* (mutant) no final else: an unknown mode falls through
Supported_Any(m) == TRUE

\* the branches on self._neg_mode: anything but 'batch' and 'full' raises ValueError
Supported(m) == m \in {"batch", "full"}

\* (mutant) the whole entity set in every mode
Candidates_AlwaysFull(m, all_ents) == IntCand(num_ents)

\* cand: the batch's own entities in 'batch' mode, the entity count in 'full' mode
Candidates(m, all_ents) == IF m = "batch" THEN SeqCand(all_ents) ELSE IntCand(num_ents)

\* the arrays the sampling loop over the batch can produce, one row per triplet
NegRows(data, mode, fl_set, cand) ==
    LET S(i) == uniform_sampler(num_negs, cand, fl_set_i(data, mode, fl_set, i))
    IN  {neg \in [DOMAIN data -> UNION {S(i) : i \in DOMAIN data}] :
            \A i \in DOMAIN data : neg[i] \in S(i)}

_collate_fn(fn, data, mode, fl_set) ==
    LET h == Column(data, 1)
        r == Column(data, 2)
        t == Column(data, 3)
        first == group_index(<<h, t>>)
        cand == Candidates(neg_mode, first.uniques)
        Bad(i) == \/ KeyMissing(data, mode, fl_set, i)
                  \/ uniform_sampler(num_negs, cand, fl_set_i(data, mode, fl_set, i)) = {}
    IN  IF ~Supported(neg_mode)
        THEN last' = Raised(fn, data, "ValueError")
        ELSE IF \E i \in DOMAIN data : Bad(i)
        THEN LET i == CHOOSE j \in DOMAIN data : Bad(j) /\ \A l \in 1..(j - 1) : ~Bad(l)
             IN  last' = [Raised(fn, data,
                                 IF KeyMissing(data, mode, fl_set, i) THEN "KeyError" ELSE "spin")
                          EXCEPT !.cand = cand]
        ELSE \E neg \in NegRows(data, mode, fl_set, cand) :
                LET gi == IF neg_mode = "full"
                          THEN group_index(<<h, t, np_concatenate(neg)>>)
                          ELSE first
                    d == gi.reindex_dict
                IN  IF Reindexable(d, h) /\ Reindexable(d, t)
                       /\ \A i \in DOMAIN neg : Reindexable(d, neg[i])
                    THEN last' = [fn |-> fn, data |-> data, outcome |-> "ok",
                                  mode |-> mode, fl_set |-> fl_set,
                                  cand |-> cand, neg |-> neg,
                                  h |-> reindex_func(d, h), r |-> r,
                                  t |-> reindex_func(d, t),
                                  neg_ents |-> [i \in DOMAIN neg |-> reindex_func(d, neg[i])],
                                  all_ents |-> gi.uniques]
                    ELSE last' = [Raised(fn, data, "KeyError") EXCEPT !.cand = cand,
                                                                      !.neg = neg]

\* the triplets (h, r, t) over the dataset's entities, and the batches of them
Triplets == (0..(num_ents - 1)) \X Rels \X (0..(num_ents - 1))
Batches == [1..batch_size -> Triplets]
\* collation is single-threaded: a call starts when no call is in progress
Idle == last = NoCall

head_collate_fn ==
    /\ Idle
    /\ \E data \in Batches : _collate_fn("head", data, "head", filter_dict.head)
    /\ UNCHANGED <<num_ents, neg_mode, num_negs, filter_mode, filter_dict, filter_kind, step, batch_size, nMixed,
                   usVars, thVars, testVars>>

tail_collate_fn ==
    /\ Idle
    /\ \E data \in Batches : _collate_fn("tail", data, "tail", filter_dict.tail)
    /\ UNCHANGED <<num_ents, neg_mode, num_negs, filter_mode, filter_dict, filter_kind, step, batch_size, nMixed,
                   usVars, thVars, testVars>>

\* (mutant) the counter advances by two
Incremented_ByTwo(v) == v + 2

\* self._step += 1: the value stored, from the value loaded
Incremented(v) == v + 1

\* (mutant) the parity test inverted
MixedSide_Flipped(s) == IF s % 2 = 0 THEN "tail" ELSE "head"

\* if self._step % 2 == 0: 'head' else 'tail'
MixedSide(s) == IF s % 2 = 0 THEN "head" ELSE "tail"

mixed_collate_fn ==
    /\ Idle
    /\ nMixed < MaxCalls
    /\ step' = Incremented(step)
    /\ nMixed' = nMixed + 1
    /\ \E data \in Batches :
          _collate_fn("mixed", data, MixedSide(step'), filter_dict[MixedSide(step')])
    /\ UNCHANGED <<num_ents, neg_mode, num_negs, filter_mode, filter_dict, filter_kind, batch_size,
                   usVars, thVars, testVars>>

\* The caller takes what the call returned or raised (the batch lives for one
\* collation call).  A call that never returns is never taken.
Taken ==
    /\ last # NoCall
    /\ last.outcome # "spin"
    /\ last' = NoCall
    /\ UNCHANGED <<num_ents, neg_mode, num_negs, filter_mode, filter_dict, filter_kind, step,
                   batch_size, nMixed, usVars, thVars, testVars>>

Init == KGDatasetInit /\ SamplerOff /\ ThreadsOff /\ TestOff
Next == head_collate_fn \/ tail_collate_fn \/ mixed_collate_fn \/ Taken
Spec == Init /\ [][Next]_vars

(***************************************************************************)
(* Properties of collation (specification Spec)                            *)
(***************************************************************************)
Returned == last.outcome = "ok"
BatchIdx == DOMAIN last.data
NegIdx == 1..num_negs
\* every (global id, local id) pair of the returned batch
Occurrences ==
    {<<last.data[i][1], last.h[i]>> : i \in BatchIdx}
    \cup {<<last.data[i][3], last.t[i]>> : i \in BatchIdx}
    \cup {<<last.neg[i][j], last.neg_ents[i][j]>> : i \in BatchIdx, j \in NegIdx}

\* C2: in every returned batch, of either sampling mode, each reindexed head,
\* tail and negative lies in [0, U), U the length of all_ents; all_ents at a
\* local id is the global id it came from; equal global ids have equal local
\* ids; and every local id in [0, U) is used.
C2_ReindexRoundTrip ==
    Returned =>
        LET U == Len(last.all_ents)
        IN  /\ \A o \in Occurrences :
                  /\ o[2] \in 0..(U - 1)
                  /\ last.all_ents[o[2] + 1] = o[1]
            /\ \A o1, o2 \in Occurrences : o1[1] = o2[1] => o1[2] = o2[2]
            /\ \A l \in 0..(U - 1) : \E o \in Occurrences : o[2] = l

\* a 'full' batch whose vocabulary is {0, 2}: global 2 becomes local 1
C2_Witness ==
    /\ Returned
    /\ neg_mode = "full"
    /\ last.all_ents = <<0, 2>>
    /\ \E i \in BatchIdx, j \in NegIdx : last.neg[i][j] = 2 /\ last.neg_ents[i][j] = 1

\* C3: the n-th mixed_collate_fn call on a fresh dataset corrupts tails when n
\* is odd and heads when n is even, with the filter dictionary of that side;
\* head_collate_fn and tail_collate_fn calls leave the counter alone, so it
\* always equals the number of mixed calls made.
C3_MixedAlternates ==
    /\ step = nMixed
    /\ (Returned /\ last.fn = "mixed") =>
          /\ last.mode = (IF nMixed % 2 = 1 THEN "tail" ELSE "head")
          /\ last.fl_set = filter_dict[last.mode]

\* the second mixed call returned, corrupting heads with the 'head' filters
C3_Witness ==
    /\ Returned
    /\ last.fn = "mixed"
    /\ nMixed = 2
    /\ last.mode = "head"
    /\ filter_dict.head # filter_dict.tail

\* C4: in 'batch' mode the candidate pool and the returned vocabulary are the
\* sorted unique heads and tails of the batch, and every sampled negative
\* (global id) is in the pool, with or without filtering.
C4_BatchPool ==
    (Returned /\ neg_mode = "batch") =>
        LET pool == {last.data[i][1] : i \in BatchIdx} \cup {last.data[i][3] : i \in BatchIdx}
        IN  /\ last.cand.kind = "seq"
            /\ last.cand.e = last.all_ents
            /\ Elems(last.all_ents) = pool
            /\ Len(last.all_ents) = Cardinality(pool)
            /\ \A i \in BatchIdx, j \in NegIdx : last.neg[i][j] \in pool

\* a filtered 'batch' batch of two triplets over three entities
C4_Witness ==
    /\ Returned
    /\ neg_mode = "batch"
    /\ filter_mode
    /\ Truthy(last.fl_set)
    /\ Len(last.data) = 2
    /\ last.all_ents = <<0, 1, 2>>

\* d[key] = ids, for a filter dictionary d
HasEntry(d, key, ids) == ~d.none /\ key \in DOMAIN d.map /\ d.map[key] = ids

\* C5 (as claimed): with filter_dict['tail'][(1,0)] = {0}, head corruption of
\* the triplet (0,0,1) never returns entity 0; and in general no negative of a
\* triplet is in the filter set stored under that triplet's key.
C5_FilteredAsClaimed ==
    (Returned /\ filter_mode) =>
        /\ (last.mode = "head" /\ HasEntry(filter_dict.tail, <<1, 0>>, {0}))
           => \A i \in BatchIdx :
                 last.data[i] = <<0, 0, 1>> => 0 \notin Elems(last.neg[i])
        /\ Truthy(last.fl_set)
           => \A i \in BatchIdx :
                 Elems(last.neg[i]) \cap last.fl_set.map[FilterKey(last.data, last.mode, i)] = {}

\* what does hold when the filter sets are stored as arrays: no negative of a
\* triplet is in the set stored under that triplet's key in the dictionary of
\* the corrupted side
ArrayFiltersExclude ==
    (Returned /\ Truthy(last.fl_set) /\ filter_kind = "array") =>
        /\ last.fl_set = filter_dict[last.mode]
        /\ \A i \in BatchIdx :
              Elems(last.neg[i]) \cap last.fl_set.map[FilterKey(last.data, last.mode, i)] = {}

\* the example of C5 with array filter sets: 'tail'[(1,0)] = {0} does not keep
\* entity 0 out of the corrupted heads of (0,0,1)
TailFilterDoesNotGuardHeads ==
    /\ Returned
    /\ filter_kind = "array"
    /\ last.mode = "head"
    /\ HasEntry(filter_dict.tail, <<1, 0>>, {0})
    /\ \E i \in BatchIdx : last.data[i] = <<0, 0, 1>> /\ 0 \in Elems(last.neg[i])

\* the example of C5 with the sets the docstring describes: entity 0 is in
\* 'head'[(1,0)] and is still returned as a corrupted head of (0,0,1)
SetFilterDoesNotFilter ==
    /\ Returned
    /\ filter_kind = "set"
    /\ last.mode = "head"
    /\ HasEntry(filter_dict.tail, <<1, 0>>, {0})
    /\ HasEntry(filter_dict.head, <<1, 0>>, {0})
    /\ \E i \in BatchIdx : last.data[i] = <<0, 0, 1>> /\ 0 \in Elems(last.neg[i])

\* C6: in 'full' mode every sampled negative is in [0, num_ents) and the
\* returned vocabulary has at most B*(2+num_negs) and at most num_ents ids.
C6_FullVocabulary ==
    (Returned /\ neg_mode = "full") =>
        /\ \A i \in BatchIdx : \A j \in DOMAIN last.neg[i] :
              last.neg[i][j] \in 0..(num_ents - 1)
        /\ Len(last.all_ents) <= Len(last.data) * (2 + num_negs)
        /\ Len(last.all_ents) <= num_ents

\* a filtered batch of one triplet with two negatives over more entities than
\* it can mention: the vocabulary has B*(2+num_negs) = 4 ids, fewer than num_ents
C6_Witness ==
    /\ Returned
    /\ neg_mode = "full"
    /\ Truthy(last.fl_set)
    /\ Len(last.data) * (2 + num_negs) < num_ents
    /\ Len(last.all_ents) = Len(last.data) * (2 + num_negs)
    /\ Len(last.all_ents) = 4

\* the other regime: two triplets and two negatives over a small dataset, where
\* the vocabulary is all num_ents entities, fewer than B*(2+num_negs)
FullVocabularyIsAllEntities ==
    /\ Returned
    /\ neg_mode = "full"
    /\ num_ents < Len(last.data) * (2 + num_negs)
    /\ Len(last.all_ents) = num_ents

\* C7: on a dataset whose sampling mode is neither 'batch' nor 'full', every
\* collation call raises ValueError, samples no negative and returns no batch.
C7_InvalidModeRejected ==
    (neg_mode \notin {"batch", "full"} /\ last.fn # "none") =>
        /\ last.outcome = "ValueError"
        /\ last.neg = <<>>
        /\ last.mode = "none"
        /\ last.all_ents = <<>>

C7_Witness ==
    /\ neg_mode = "other"
    /\ last.fn = "mixed"
    /\ last.outcome = "ValueError"

(***************************************************************************)
(* One call of KGDataset.uniform_sampler, statement by statement           *)
(* (specification SamplerSpec)                                             *)
(***************************************************************************)
\* bounds: the ids, the counts k, the candidate domains and the filter sets of a call
SamplerIds == 0..2
SamplerCounts == 0..2
\* cand: an entity count, or a sorted array of unique ids (what group_index gives)
SamplerCands ==
    {IntCand(n) : n \in 1..3}
    \cup {SeqCand(SortedSeq(S)) : S \in (SUBSET SamplerIds) \ {{}}}
SamplerFilters ==
    {None} \cup {PySet(S) : S \in SUBSET SamplerIds}
           \cup {PyArray(S) : S \in SUBSET SamplerIds}

KGOff ==
    /\ num_ents = 0
    /\ neg_mode = "full"
    /\ num_negs = 0
    /\ filter_mode = FALSE
    /\ filter_dict = [head |-> NoneDict, tail |-> NoneDict]
    /\ filter_kind = "set"
    /\ step = 0
    /\ batch_size = 0
    /\ nMixed = 0
    /\ last = NoCall

SamplerInit ==
    /\ us_pc = "entry"
    /\ us_k \in SamplerCounts
    /\ us_cand \in SamplerCands
    /\ us_filter_set \in SamplerFilters
    /\ us_new_e_list = <<>>
    /\ us_new_e_num = 0
    /\ us_new_e = <<>>
    /\ KGOff /\ ThreadsOff /\ TestOff

\* np.random.randint(0, n_cand, size), mapped through e_cand
Draws(size, cand) ==
    {[i \in 1..size |-> e_cand(cand, idx[i])] :
        idx \in [1..size -> 0..(n_cand(cand) - 1)]}

\* if filter_set is not None: new_e_list = []; new_e_num = 0
SamplerEnterLoop ==
    /\ us_pc = "entry"
    /\ us_filter_set # None
    /\ us_new_e_list' = <<>>
    /\ us_new_e_num' = 0
    /\ us_pc' = "while"
    /\ UNCHANGED <<us_k, us_cand, us_filter_set, us_new_e, kgVars, thVars, testVars>>

\* one iteration of the while loop: draw 2k, mask, append, count
SamplerIterate ==
    /\ us_pc = "while"
    /\ us_new_e_num < us_k
    /\ \E drawn \in Draws(2 * us_k, us_cand) :
          LET kept == Masked(drawn, in1d_invert(drawn, us_filter_set))
          IN  /\ us_new_e_list' = us_new_e_list \o kept
              /\ us_new_e_num' = us_new_e_num + Len(kept)
    /\ UNCHANGED <<us_pc, us_k, us_cand, us_filter_set, us_new_e, kgVars, thVars, testVars>>

\* new_e = np.concatenate(new_e_list)[:k]; the list is empty only when the loop
\* never ran (k = 0), and np.concatenate of no arrays raises ValueError
SamplerTruncate ==
    /\ us_pc = "while"
    /\ ~(us_new_e_num < us_k)
    /\ IF us_k = 0
       THEN us_pc' = "ValueError" /\ UNCHANGED us_new_e
       ELSE us_pc' = "return" /\ us_new_e' = SubSeq(us_new_e_list, 1, us_k)
    /\ UNCHANGED <<us_k, us_cand, us_filter_set, us_new_e_list, us_new_e_num,
                   kgVars, thVars, testVars>>

\* else: new_e = randint(0, n_cand, k), mapped through e_cand
SamplerUnfiltered ==
    /\ us_pc = "entry"
    /\ us_filter_set = None
    /\ us_new_e' \in Draws(us_k, us_cand)
    /\ us_pc' = "return"
    /\ UNCHANGED <<us_k, us_cand, us_filter_set, us_new_e_list, us_new_e_num,
                   kgVars, thVars, testVars>>

SamplerNext == SamplerEnterLoop \/ SamplerIterate \/ SamplerTruncate \/ SamplerUnfiltered
SamplerSpec == SamplerInit /\ [][SamplerNext]_vars

\* A draw that keeps at least one id.  Draws are uniform and independent, so
\* while such a draw is possible it happens with probability 1.
SamplerKeepsSome == SamplerIterate /\ us_new_e_num' > us_new_e_num
SamplerFairSpec ==
    SamplerSpec /\ WF_vars(SamplerEnterLoop) /\ WF_vars(SamplerKeepsSome)
                /\ WF_vars(SamplerTruncate) /\ WF_vars(SamplerUnfiltered)

\* the candidate domain of the call
CandidateDomain ==
    IF us_cand.kind = "int" THEN 0..(us_cand.n - 1) ELSE Elems(us_cand.e)

\* the call returns only arrays the collation model lets it return
SamplerRefinesResultSet ==
    us_pc = "return" => us_new_e \in uniform_sampler(us_k, us_cand, us_filter_set)

\* C1 (as claimed): a call with a filter set that returns gives exactly k ids,
\* each in the candidate domain and none in filter_set.
C1_FilteredSampleAsClaimed ==
    (us_pc = "return" /\ us_filter_set # None) =>
        /\ Len(us_new_e) = us_k
        /\ \A i \in DOMAIN us_new_e :
              /\ us_new_e[i] \in CandidateDomain
              /\ us_new_e[i] \notin us_filter_set.ids

\* what does hold of every returned call: k ids of the candidate domain
SamplerShape ==
    us_pc = "return" =>
        /\ Len(us_new_e) = us_k
        /\ \A i \in DOMAIN us_new_e : us_new_e[i] \in CandidateDomain

Filtered == us_filter_set # None /\ us_k >= 1
AllFiltered == Filtered /\ CandidateDomain \subseteq us_filter_set.ids
SomeUnfiltered == Filtered /\ ~(CandidateDomain \subseteq us_filter_set.ids)
Finished == us_pc \in {"return", "ValueError"}

\* C9 (as claimed): with k >= 1 and a filter set, the loop eventually returns
\* when some candidate is outside the filter set, and never returns or raises
\* when every candidate is in it.
C9_LoopAsClaimed ==
    /\ SomeUnfiltered ~> (us_pc = "return")
    /\ [](AllFiltered => ~Finished)

\* the halves of C9 on their own
C9_EventuallyReturns == SomeUnfiltered ~> (us_pc = "return")
C9_AllFilteredNeverReturns == AllFiltered => ~Finished
\* with filter sets stored as arrays the second half holds
C9_ArrayFilterSpins == (AllFiltered /\ us_filter_set.kind = "array") => ~Finished

(***************************************************************************)
(* Threads calling mixed_collate_fn on one dataset without serialization   *)
(* (specification ThreadSpec).  self._step += 1 loads the attribute, adds  *)
(* and stores it; the parity check loads it again.  The _collate_fn call   *)
(* that follows touches no shared state.                                   *)
(***************************************************************************)
NumThreads == 2
MaxThreadCalls == 3       \* calls begun by all threads together
Threads == 1..NumThreads

ThreadInit ==
    /\ th_pc = [w \in Threads |-> "idle"]
    /\ th_reg = [w \in Threads |-> 0]
    /\ th_log = <<>>
    /\ th_overlap = FALSE
    /\ KGOff /\ SamplerOff /\ TestOff

\* a call begins: the load of self._step
ThreadLoad(w) ==
    /\ th_pc[w] = "idle"
    /\ nMixed < MaxThreadCalls
    /\ nMixed' = nMixed + 1
    /\ th_reg' = [th_reg EXCEPT ![w] = step]
    /\ th_pc' = [th_pc EXCEPT ![w] = "loaded"]
    /\ th_overlap' = (th_overlap \/ \E v \in Threads \ {w} : th_pc[v] # "idle")
    /\ UNCHANGED <<num_ents, neg_mode, num_negs, filter_mode, filter_dict, filter_kind, step,
                   batch_size, last, th_log, usVars, testVars>>

\* the store of the incremented value
ThreadStore(w) ==
    /\ th_pc[w] = "loaded"
    /\ step' = Incremented(th_reg[w])
    /\ th_pc' = [th_pc EXCEPT ![w] = "stored"]
    /\ UNCHANGED <<num_ents, neg_mode, num_negs, filter_mode, filter_dict, filter_kind, batch_size,
                   nMixed, last, th_reg, th_log, th_overlap, usVars, testVars>>

\* the parity check, which picks the side the call corrupts
ThreadCheck(w) ==
    /\ th_pc[w] = "stored"
    /\ th_log' = Append(th_log, MixedSide(step))
    /\ th_pc' = [th_pc EXCEPT ![w] = "idle"]
    /\ UNCHANGED <<kgVars, th_reg, th_overlap, usVars, testVars>>

ThreadNext ==
    \E w \in Threads : ThreadLoad(w) \/ ThreadStore(w) \/ ThreadCheck(w)
ThreadSpec == ThreadInit /\ [][ThreadNext]_vars

AllIdle == \A w \in Threads : th_pc[w] = "idle"
Alternating(log) ==
    \A i \in DOMAIN log : log[i] = (IF i % 2 = 1 THEN "tail" ELSE "head")

\* C10: as long as no call began while another was in progress the sides
\* alternate tail, head, tail, ... and the counter counts the calls; calls that
\* overlap can pick the same side and can lose an increment (C10_Witness).
C10_SerializedAlternates ==
    ~th_overlap =>
        /\ Alternating(th_log)
        /\ AllIdle => step = nMixed

\* two overlapping calls both corrupted tails and the counter advanced by one
C10_Witness ==
    /\ th_overlap
    /\ AllIdle
    /\ nMixed = 2
    /\ th_log = <<"tail", "tail">>
    /\ step = 1

\* without serialization strict alternation is not an invariant
ThreadsAlwaysAlternate == Alternating(th_log) /\ (AllIdle => step = nMixed)

(***************************************************************************)
(* TestKGDataset (specification TestSpec)                                  *)
(***************************************************************************)
\* bounds: the entity ids of the queries, and the sizes
TestEnts == {0, 1}
TestSizes == {1, 2}               \* number of queries, and length of a batch
Nothing == [none |-> TRUE, v |-> <<>>]         \* None
Some(v) == [none |-> FALSE, v |-> v]
\* bool(x) of None or a list
ListTruthy(x) == ~x.none /\ x.v # <<>>

\* TestKGDataset.__init__: 'normal' triplets carry t and an int candidate count;
\* 'wiki' triplets carry one candidate row per query and no t
TestInit ==
    /\ test_num_ents \in 1..NumEnts
    /\ \E n \in TestSizes :
          /\ test_h \in [1..n -> TestEnts]
          /\ test_r \in [1..n -> Rels]
          /\ test_corr_idx \in {Nothing} \cup {Some(c) : c \in [1..n -> {0, 1}]}
          /\ \/ /\ test_mode = "normal"
                /\ test_t \in {Some(t) : t \in [1..n -> TestEnts]}
                /\ test_cand \in 1..NumEnts
             \/ /\ test_mode = "wiki"
                /\ test_t = Nothing
                /\ test_cand \in [1..n -> [1..2 -> TestEnts]]
    /\ test_ret = <<>>
    /\ KGOff /\ SamplerOff /\ ThreadsOff

\* TestKGDataset.__len__
test_len == Len(test_r)

\* TestKGDataset.__getitem__
test_getitem(index) ==
    [h |-> test_h[index],
     r |-> test_r[index],
     t |-> IF ~test_t.none THEN Some(test_t.v[index]) ELSE Nothing,
     cand |-> IF test_mode = "normal" THEN test_cand ELSE test_cand[index],
     corr_idx |-> IF ListTruthy(test_corr_idx) THEN Some(test_corr_idx.v[index]) ELSE Nothing]

\* (mutant) a range starting at 1
arange_FromOne(n) == [i \in 1..n |-> i]

\* paddle.arange(n)
arange(n) == [i \in 1..n |-> i - 1]

\* TestKGDataset.collate_fn
test_collate_fn(data) ==
    LET h == [i \in DOMAIN data |-> data[i].h]
        r == [i \in DOMAIN data |-> data[i].r]
    IN  IF test_mode = "wiki"
        THEN [mode |-> test_mode, h |-> h, r |-> r, t |-> Nothing,
              cand |-> [i \in DOMAIN data |-> data[i].cand],
              corr_idx |-> IF ListTruthy(test_corr_idx)
                           THEN Some([i \in DOMAIN data |-> data[i].corr_idx.v])
                           ELSE Nothing]
        ELSE [mode |-> test_mode, h |-> h, r |-> r,
              t |-> Some([i \in DOMAIN data |-> data[i].t.v]),
              cand |-> <<arange(data[1].cand)>>,
              corr_idx |-> Nothing]

\* the loader picks indices, reads the items and collates them
TestCollate ==
    /\ \E b \in TestSizes : \E idx \in [1..b -> 1..test_len] :
          test_ret' = <<[idx |-> idx,
                         ret |-> test_collate_fn([i \in 1..b |-> test_getitem(idx[i])])]>>
    /\ UNCHANGED <<test_num_ents, test_mode, test_h, test_r, test_t, test_cand,
                   test_corr_idx, kgVars, usVars, thVars>>

TestNext == TestCollate
TestSpec == TestInit /\ [][TestNext]_vars

TestReturned == test_ret # <<>>
\* the batch's head, relation and tail tensors, mode label and None correct-index
TestBatchFields ==
    LET idx == test_ret[1].idx
        ret == test_ret[1].ret
    IN  /\ ret.mode = "normal"
        /\ ret.h = [i \in DOMAIN idx |-> test_h[idx[i]]]
        /\ ret.r = [i \in DOMAIN idx |-> test_r[idx[i]]]
        /\ ret.t = Some([i \in DOMAIN idx |-> test_t.v[idx[i]]])
        /\ ret.corr_idx = Nothing

\* C8 (as claimed): in 'normal' mode collate_fn returns one shared candidate row
\* equal to [0, num_ents), num_ents the count the dataset was constructed with.
C8_CandidatesAreNumEnts ==
    (TestReturned /\ test_mode = "normal") =>
        /\ test_ret[1].ret.cand = <<[i \in 1..test_num_ents |-> i - 1]>>
        /\ TestBatchFields

\* C8 (amended): the shared candidate row is [0, c), c the integer the dataset
\* was given as triplets['candidate'].
C8_CandidatesAreCandidateCount ==
    (TestReturned /\ test_mode = "normal") =>
        /\ Len(test_ret[1].ret.cand) = 1
        /\ Len(test_ret[1].ret.cand[1]) = test_cand
        /\ \A i \in 1..test_cand : test_ret[1].ret.cand[1][i] = i - 1
        /\ TestBatchFields

\* a 'normal' batch of two queries from a dataset whose candidate count is not
\* its num_ents, and which was given a correct_index
C8_Witness ==
    /\ TestReturned
    /\ test_mode = "normal"
    /\ test_cand = 2
    /\ test_num_ents = 3
    /\ ~test_corr_idx.none
    /\ Len(test_ret[1].idx) = 2

====
